---- MODULE Spec2Model ----
(***************************************************************************)
(* Model of scripts/radar_visualization.py (class RadarVizNode).           *)
(*                                                                         *)
(* Spec      the node: the three subscriber callbacks radarCallback,       *)
(*           rangeCallback and imageCallback.  rospy runs the callbacks of *)
(*           different subscribers on different threads and the class      *)
(*           holds no lock, so the callbacks interleave between any two    *)
(*           accesses of the shared fields range, angle, estRange and      *)
(*           estAngle.  Callbacks of one subscriber run one after another. *)
(*           A run handles at most MaxMsgs radar and estimate messages and *)
(*           MaxImages images.                                             *)
(* SpecProj  the geometry: getBoxPoints, boxImageOverlay,                  *)
(*           getCameraProjection and rotationMatrix on bounded inputs.     *)
(*                                                                         *)
(* Lengths are integers in half metres (the projection is homogeneous in   *)
(* the length unit), angles of the store are milliradians, the intrinsic   *)
(* matrix is in thousandths, and the Euler angles of the geometry are      *)
(* quarter turns, whose sines and cosines are exact.                       *)
(***************************************************************************)
EXTENDS Integers, Sequences, FiniteSets, TLC

VARIABLES
  \* ---- fields of RadarVizNode shared by the callbacks
  range, angle, estRange, estAngle, showRangeEstimate,
  \* ---- radarCallback's position and locals
  rpc, ri, rmsg, nRadar, pre,
  \* ---- rangeCallback's position and locals
  epc, emsg, nEst, estHist, lastEst,
  \* ---- imageCallback's position and locals, and what it published
  ipc, ii, convOk, reported, hdr, bx, overlays, pub, nImg, outcome, error,
  \* ---- history of one imageCallback invocation
  reads, snaps, estUse, estCands, estDoneAtStart,
  \* ---- boxImageOverlay's position and locals (SpecProj)
  cfg, cast, boxPoints, opc, k1, k2, id1, id2, nextId, lines, calls

nodeVars == <<range, angle, estRange, estAngle, showRangeEstimate,
              rpc, ri, rmsg, nRadar, pre, epc, emsg, nEst, estHist, lastEst,
              ipc, ii, convOk, reported, hdr, bx, overlays, pub, nImg, outcome,
              error, reads, snaps, estUse, estCands, estDoneAtStart>>
projVars == <<cfg, cast, boxPoints, opc, k1, k2, id1, id2, nextId, lines,
              calls>>
vars == <<nodeVars, projVars>>

(***************************************************************************)
(* Bounds of the model.                                                    *)
(***************************************************************************)
\* The node has 64 channels (range(0,64)); the model keeps NumChannels of them.
NumChannels == 2
\* Radar and estimate messages handled in one run, and images in one run.
MaxMsgs == 2
MaxImages == 1
\* Largest range (half metres) handed to getBoxPoints in SpecProj.
MaxR == 4

Chan == 0 .. (NumChannels - 1)

\* status code of a tracked channel: "status[i] is 3"
ValidStatus == 3

\* Inputs of the radar message: range, azimuth in degrees, status byte.
RangeIn == {0, 2}
AzDeg == {0, 90}
StatusVals == {1, ValidStatus}
RadarMsgs == [range : [Chan -> RangeIn], azimuth : [Chan -> AzDeg],
              status : [Chan -> StatusVals]]
\* Inputs of the estimate message: range, azimuth in milliradians.
EstMsgs == [range : {0, 4}, azimuth : {0, 3142}]
Headers == {"h1", "h2"}

\* Python's None and a value that is not None.
NoneV == [isNone |-> TRUE, v |-> 0]
Some(x) == [isNone |-> FALSE, v |-> x]

(***************************************************************************)
(* radarCallback                                                           *)
(***************************************************************************)
\* "msg.azimuth[i]*pi/180." in milliradians (pi = 3.14159...).
DegToRad(d) == (d * 174533) \div 10000

\* A loop that does not filter on the status.
IsValidAlways(s) == TRUE
\* "status[i] is 3": identity of small ints is equality in CPython.
IsValid(s) == s = ValidStatus

\* The range the loop body writes to self.range[i] (line 77 or line 80).
NewRange(msg, i) == IF IsValid(msg.status[i]) THEN msg.range[i] ELSE 0

\* An angle stored without the conversion from degrees.
NewAngleRaw(msg, i) == msg.azimuth[i]
\* The angle line 78 writes to self.angle[i] (valid channels only).
NewAngle(msg, i) == DegToRad(msg.azimuth[i])

\* The store after a whole radarCallback(msg) that starts from store st.
UpdateDetections(st, msg) ==
  [range |-> [i \in Chan |-> NewRange(msg, i)],
   angle |-> [i \in Chan |-> IF IsValid(msg.status[i]) THEN NewAngle(msg, i)
                                                         ELSE st.angle[i]]]

store == [range |-> range, angle |-> angle]

radarLocals == <<rpc, ri, rmsg, nRadar, pre>>
estLocals == <<epc, emsg, nEst, estHist, lastEst>>
imageLocals == <<ipc, ii, convOk, reported, hdr, bx, overlays, pub, nImg,
                 outcome, error, reads, estUse, estCands, estDoneAtStart>>

\* lines 67-75: the message arrives, the loop starts.
RadarStart(msg) ==
  /\ rpc = "idle"
  /\ nRadar + nEst < MaxMsgs
  /\ rpc' = "range"
  /\ ri' = 0
  /\ rmsg' = msg
  /\ nRadar' = nRadar + 1
  /\ pre' = store
  /\ snaps' = IF ipc # "idle" THEN snaps \cup {UpdateDetections(store, msg)}
                              ELSE snaps
  /\ UNCHANGED <<range, angle, estRange, estAngle, showRangeEstimate>>
  /\ UNCHANGED <<estLocals, imageLocals, projVars>>

RadarNext ==
  IF ri + 1 = NumChannels THEN rpc' = "idle" /\ ri' = 0
                          ELSE rpc' = "range" /\ ri' = ri + 1

\* lines 76, 77, 80: the test and the write of self.range[i].
RadarWriteRange ==
  /\ rpc = "range"
  /\ range' = [range EXCEPT ![ri] = NewRange(rmsg, ri)]
  /\ IF IsValid(rmsg.status[ri]) THEN rpc' = "angle" /\ ri' = ri
                                 ELSE RadarNext
  /\ UNCHANGED <<angle, estRange, estAngle, showRangeEstimate, rmsg, nRadar,
                 pre, snaps>>
  /\ UNCHANGED <<estLocals, imageLocals, projVars>>

\* line 78: the write of self.angle[i].
RadarWriteAngle ==
  /\ rpc = "angle"
  /\ angle' = [angle EXCEPT ![ri] = NewAngle(rmsg, ri)]
  /\ RadarNext
  /\ UNCHANGED <<range, estRange, estAngle, showRangeEstimate, rmsg, nRadar,
                 pre, snaps>>
  /\ UNCHANGED <<estLocals, imageLocals, projVars>>

(***************************************************************************)
(* rangeCallback                                                           *)
(***************************************************************************)
\* line 64: self.estRange = msg.range.  The subscriber exists only when
\* show_range_estimate is set (lines 49-50).
EstWriteRange(msg) ==
  /\ showRangeEstimate
  /\ epc = "idle"
  /\ nRadar + nEst < MaxMsgs
  /\ estRange' = Some(msg.range)
  /\ epc' = "angle"
  /\ emsg' = msg
  /\ nEst' = nEst + 1
  /\ estHist' = estHist \cup {msg}
  /\ UNCHANGED <<range, angle, estAngle, showRangeEstimate, lastEst, snaps>>
  /\ UNCHANGED <<radarLocals, imageLocals, projVars>>

\* line 65: self.estAngle = msg.azimuth.
EstWriteAngle ==
  /\ epc = "angle"
  /\ estAngle' = Some(emsg.azimuth)
  /\ epc' = "idle"
  /\ lastEst' = Some(emsg)
  /\ UNCHANGED <<range, angle, estRange, showRangeEstimate, emsg, nEst,
                 estHist, snaps>>
  /\ UNCHANGED <<radarLocals, imageLocals, projVars>>

(***************************************************************************)
(* imageCallback                                                           *)
(***************************************************************************)
NoBox == [cosAng |-> 0, rX |-> 0, sinAng |-> 0, rY |-> 0]
NoUse == [used |-> FALSE, r |-> NoneV, a |-> NoneV]

\* The handler ends by raising: rospy logs the exception of a callback and the
\* subscriber's thread goes on with the next message.
Raise(e) ==
  /\ ipc' = "idle"
  /\ outcome' = "raised"
  /\ error' = e

shared == <<range, angle, estRange, estAngle, showRangeEstimate>>

\* The fully written (committed) stores there are when the handler starts: the
\* store itself, or, with a radarCallback under way, the store before it and
\* the store after it.
Committed ==
  IF rpc = "idle" THEN {store} ELSE {pre, UpdateDetections(pre, rmsg)}

\* lines 85-88 and the loop entry of line 91: imgmsg_to_cv2 returns the image
\* (ok) or raises CvBridgeError, which is printed and leaves img unbound.
ImageStart(ok, h) ==
  /\ ipc = "idle"
  /\ nImg < MaxImages
  /\ nImg' = nImg + 1
  /\ convOk' = ok
  /\ reported' = ~ok
  /\ hdr' = h
  /\ ipc' = "loop"
  /\ ii' = 0
  /\ bx' = NoBox
  /\ overlays' = <<>>
  /\ outcome' = "running"
  /\ error' = "none"
  /\ reads' = {}
  /\ snaps' = Committed
  /\ estUse' = NoUse
  /\ estCands' = {}
  /\ estDoneAtStart' = ~lastEst.isNone
  /\ UNCHANGED <<shared, pub>>
  /\ UNCHANGED <<radarLocals, estLocals, projVars>>

Read(kind, i, val) == reads' = reads \cup {[kind |-> kind, i |-> i, val |-> val]}

ImageNextChan ==
  IF ii + 1 = NumChannels THEN ipc' = "est" /\ ii' = 0
                          ELSE ipc' = "loop" /\ ii' = ii + 1

\* line 92: a box is drawn for a channel whose range is positive.
Draws(r) == r > 0

\* line 92: if (self.range[i]>0).
ImageTest ==
  /\ ipc = "loop"
  /\ Read("range", ii, range[ii])
  /\ IF Draws(range[ii]) THEN ipc' = "cosAng" /\ ii' = ii
                         ELSE ImageNextChan
  /\ UNCHANGED <<shared, snaps, convOk, reported, hdr, bx, overlays, pub,
                 nImg, outcome, error, estUse, estCands, estDoneAtStart>>
  /\ UNCHANGED <<radarLocals, estLocals, projVars>>

\* lines 94 and 121: self.range[i] and self.angle[i] are views of the arrays,
\* so getBoxPoints reads the store when it evaluates r*cos(ang) and r*sin(ang):
\* cos(ang) reads the angle, r*... reads the range, and again for the sine.
ImageBoxRead(at, kind, field, next) ==
  /\ ipc = at
  /\ LET val == IF kind = "range" THEN range[ii] ELSE angle[ii]
     IN  /\ Read(kind, ii, val)
         /\ bx' = [bx EXCEPT ![field] = val]
  /\ ipc' = next
  /\ UNCHANGED <<shared, snaps, ii, convOk, reported, hdr, overlays, pub,
                 nImg, outcome, error, estUse, estCands, estDoneAtStart>>
  /\ UNCHANGED <<radarLocals, estLocals, projVars>>

ImageCosAng == ImageBoxRead("cosAng", "angle", "cosAng", "rX")
ImageRx == ImageBoxRead("rX", "range", "rX", "sinAng")
ImageSinAng == ImageBoxRead("sinAng", "angle", "sinAng", "rY")

\* line 121 (the last read, of the range in r*sin(ang)), the rest of
\* getBoxPoints and line 95: boxImageOverlay(boxPoints,(0,0,255),img), which
\* raises UnboundLocalError when img was never bound.
ImageOverlay ==
  /\ ipc = "rY"
  /\ Read("range", ii, range[ii])
  /\ LET b == [bx EXCEPT !.rY = range[ii]]
     IN  IF convOk
         THEN /\ overlays' = Append(overlays, [colour |-> "red", chan |-> ii,
                                               box |-> b])
              /\ bx' = NoBox
              /\ ImageNextChan
              /\ UNCHANGED <<outcome, error>>
         ELSE /\ Raise("UnboundLocalError")
              /\ UNCHANGED <<overlays, bx, ii>>
  /\ UNCHANGED <<shared, snaps, convOk, reported, hdr, pub, nImg, estUse,
                 estCands, estDoneAtStart>>
  /\ UNCHANGED <<radarLocals, estLocals, projVars>>

\* line 98: if self.estRange is not None.
ImageEstTest ==
  /\ ipc = "est"
  /\ ipc' = IF estRange.isNone THEN "out" ELSE "estR"
  /\ UNCHANGED <<shared, snaps, ii, convOk, reported, hdr, bx, overlays, pub,
                 nImg, outcome, error, reads, estUse, estCands, estDoneAtStart>>
  /\ UNCHANGED <<radarLocals, estLocals, projVars>>

\* line 99: the first argument, self.estRange, is read.
ImageEstRange ==
  /\ ipc = "estR"
  /\ estUse' = [estUse EXCEPT !.r = estRange]
  /\ ipc' = "estA"
  /\ UNCHANGED <<shared, snaps, ii, convOk, reported, hdr, bx, overlays, pub,
                 nImg, outcome, error, reads, estCands, estDoneAtStart>>
  /\ UNCHANGED <<radarLocals, estLocals, projVars>>

\* The estimate messages whose handling has ended last or is under way.
CurrentEst ==
  (IF lastEst.isNone THEN {} ELSE {lastEst.v})
    \cup (IF epc = "idle" THEN {} ELSE {emsg})

\* lines 99-100: the second argument, self.estAngle, is read; getBoxPoints
\* raises TypeError on cos(None); boxImageOverlay(boxPoints,(255,0,0),img)
\* raises UnboundLocalError when img was never bound.
ImageEstOverlay ==
  /\ ipc = "estA"
  /\ estUse' = [used |-> TRUE, r |-> estUse.r, a |-> estAngle]
  /\ estCands' = CurrentEst
  /\ IF estAngle.isNone
     THEN Raise("TypeError") /\ UNCHANGED overlays
     ELSE IF ~convOk
          THEN Raise("UnboundLocalError") /\ UNCHANGED overlays
          ELSE /\ overlays' = Append(overlays,
                      [colour |-> "blue", chan |-> NumChannels,
                       box |-> [cosAng |-> estAngle.v, rX |-> estUse.r.v,
                                sinAng |-> estAngle.v, rY |-> estUse.r.v]])
               /\ ipc' = "out"
               /\ UNCHANGED <<outcome, error>>
  /\ UNCHANGED <<shared, snaps, ii, convOk, reported, hdr, bx, pub, nImg,
                 reads, estDoneAtStart>>
  /\ UNCHANGED <<radarLocals, estLocals, projVars>>

\* lines 103-109: img_out = img raises UnboundLocalError when img was never
\* bound; otherwise the image is converted, given the inbound header and
\* published.
ImagePublish ==
  /\ ipc = "out"
  /\ IF convOk
     THEN /\ pub' = Append(pub, [header |-> hdr, overlays |-> overlays])
          /\ ipc' = "idle"
          /\ outcome' = "published"
          /\ UNCHANGED error
     ELSE Raise("UnboundLocalError") /\ UNCHANGED pub
  /\ UNCHANGED <<shared, snaps, ii, convOk, reported, hdr, bx, overlays, nImg,
                 reads, estUse, estCands, estDoneAtStart>>
  /\ UNCHANGED <<radarLocals, estLocals, projVars>>

(***************************************************************************)
(* rotationMatrix, getBoxPoints, getCameraProjection, boxImageOverlay      *)
(***************************************************************************)
\* An Euler angle q stands for q quarter turns (q*pi/2).
Quarter == 0 .. 3
Sin(q) == CASE q % 4 = 0 -> 0 [] q % 4 = 1 -> 1 [] q % 4 = 2 -> 0 [] OTHER -> -1
Cos(q) == CASE q % 4 = 0 -> 1 [] q % 4 = 1 -> 0 [] q % 4 = 2 -> -1 [] OTHER -> 0

Dot(u, v) == u[1] * v[1] + u[2] * v[2] + u[3] * v[3]
Col(B, j) == <<B[1][j], B[2][j], B[3][j]>>
Row(A, B, i) == <<Dot(A[i], Col(B, 1)), Dot(A[i], Col(B, 2)), Dot(A[i], Col(B, 3))>>
MatMul(A, B) == <<Row(A, B, 1), Row(A, B, 2), Row(A, B, 3)>>
MatVec(A, v) == <<Dot(A[1], v), Dot(A[2], v), Dot(A[3], v)>>
\* A rotation used without transposing it.
NoTranspose(A) == A
\* "Ccs.T"
Transpose(A) == <<Col(A, 1), Col(A, 2), Col(A, 3)>>
VecAdd(u, v) == <<u[1] + v[1], u[2] + v[2], u[3] + v[3]>>

\* lines 156-168: Rzz*Ryy*Rxx.
rotationMatrix(rot_x, rot_y, rot_z) ==
  LET sx == Sin(rot_x)
      sy == Sin(rot_y)
      sz == Sin(rot_z)
      cx == Cos(rot_x)
      cy == Cos(rot_y)
      cz == Cos(rot_z)
      Rxx == << <<1, 0, 0>>, <<0, cx, -sx>>, <<0, sx, cx>> >>
      Ryy == << <<cy, 0, sy>>, <<0, 1, 0>>, <<-sy, 0, cy>> >>
      Rzz == << <<cz, -sz, 0>>, <<sz, cz, 0>>, <<0, 0, 1>> >>
  IN  MatMul(MatMul(Rzz, Ryy), Rxx)

\* lines 59-61: the intrinsic matrix, in thousandths.
Mint == << <<941088, 0, 624482>>, <<0, 942666, 382681>>, <<0, 0, 1000>> >>

\* lines 120-131: the four corners of the box of a detection at range r and
\* angle ang (quarter turns), for a box width w.
getBoxPoints(r, ang, w) ==
  LET r_sp_s == <<r * Cos(ang), r * Sin(ang), 0>>
      dlt == w \div 2
      deltas == << <<0, dlt, dlt>>, <<0, dlt, -dlt>>, <<0, -dlt, -dlt>>,
                   <<0, -dlt, dlt>> >>
  IN  <<VecAdd(r_sp_s, deltas[1]), VecAdd(r_sp_s, deltas[2]),
        VecAdd(r_sp_s, deltas[3]), VecAdd(r_sp_s, deltas[4])>>

\* lines 135-142: the vector from the camera to the point in the camera frame.
CameraFrame(r_sp_s, c) ==
  LET r_cs_s == <<c.long, c.lat, c.height>>
      Ccs == rotationMatrix(0, c.pitch, c.yaw)
      Csc == Transpose(Ccs)
      r_cp_s == VecAdd(r_cs_s, r_sp_s)
  IN  MatVec(Csc, r_cp_s)

\* line 146: if (r_cp_c[0]<0).
Behind(r_cp_c) == r_cp_c[1] < 0

\* line 144: the rotation from the camera frame to the camera convention
\* frame (z out, y down, x right), rotationMatrix(-pi/2,-pi/2,0.).
Rcc == rotationMatrix(-1, -1, 0)

\* line 149: x_ = Mint*Rcc*r_cp_c.
XImage(r_cp_c) == MatVec(MatMul(Mint, Rcc), r_cp_c)

\* ".astype(int)": truncation toward zero.
TruncDiv(a, b) ==
  LET abs(x) == IF x < 0 THEN -x ELSE x
      q == abs(a) \div abs(b)
  IN  IF (a < 0) = (b < 0) THEN q ELSE -q

\* What the cast of an infinite or undefined quotient to int may give: the
\* result is unspecified and fixed by the build (the variable cast); the model
\* keeps two of its values.
CastOutcomes == {-2147483647, 0}

NotVisible == [isNone |-> TRUE, x |-> 0, y |-> 0]

\* lines 133-154.  g is what the casts give when the divisor is 0.
getCameraProjection(r_sp_s, c, g) ==
  LET r_cp_c == CameraFrame(r_sp_s, c)
      x_ == XImage(r_cp_c)
  IN  IF Behind(r_cp_c)
      THEN NotVisible
      ELSE IF x_[3] = 0
           THEN [isNone |-> FALSE, x |-> g, y |-> g]
           ELSE [isNone |-> FALSE, x |-> TruncDiv(x_[1], x_[3]),
                 y |-> TruncDiv(x_[2], x_[3])]

\* line 114: "pt1 is not pt2" compares the identities of the two objects.
IsNot(a, b) == a.id # b.id

\* line 112: the outer loop takes the next row of boxPoints.T, a new object.
OverlayOuter ==
  /\ opc = "outer"
  /\ k1' = k1 + 1
  /\ id1' = nextId
  /\ nextId' = nextId + 1
  /\ k2' = 0
  /\ opc' = "inner"
  /\ UNCHANGED <<cfg, cast, boxPoints, id2, lines, calls>>
  /\ UNCHANGED nodeVars

\* lines 113-118: the inner loop takes the next row of boxPoints.T, a new
\* object, and draws the segment when both projections are visible.
OverlayInner ==
  /\ opc = "inner"
  /\ k2' = k2 + 1
  /\ id2' = nextId
  /\ nextId' = nextId + 1
  /\ LET pt1 == [id |-> id1, k |-> k1]
         pt2 == [id |-> nextId, k |-> k2 + 1]
         p1 == getCameraProjection(boxPoints[pt1.k], cfg, cast)
         p2 == getCameraProjection(boxPoints[pt2.k], cfg, cast)
     IN  IF IsNot(pt1, pt2)
         THEN /\ calls' = calls \cup {[k |-> pt1.k, res |-> p1],
                                     [k |-> pt2.k, res |-> p2]}
              /\ lines' = IF ~p1.isNone /\ ~p2.isNone
                          THEN lines \cup {[c1 |-> pt1.k, c2 |-> pt2.k,
                                            from |-> <<p1.x, p1.y>>,
                                            to |-> <<p2.x, p2.y>>]}
                          ELSE lines
         ELSE UNCHANGED <<calls, lines>>
  /\ opc' = IF k2 + 1 < 4 THEN "inner" ELSE IF k1 < 4 THEN "outer" ELSE "done"
  /\ UNCHANGED <<cfg, cast, boxPoints, k1, id1>>
  /\ UNCHANGED nodeVars

(***************************************************************************)
(* The node                                                                *)
(***************************************************************************)
NoRadarMsg == [range |-> [i \in Chan |-> 0], azimuth |-> [i \in Chan |-> 0],
               status |-> [i \in Chan |-> ValidStatus]]
NoEstMsg == [range |-> 0, azimuth |-> 0]
DefaultCfg == [pitch |-> 0, yaw |-> 0, height |-> 4, long |-> 4, lat |-> 0,
               boxWidth |-> 2]

ProjIdle ==
  /\ cfg = DefaultCfg
  /\ cast = 0
  /\ boxPoints = <<>>
  /\ opc = "off"
  /\ k1 = 0 /\ k2 = 0 /\ id1 = 0 /\ id2 = 0 /\ nextId = 0
  /\ lines = {}
  /\ calls = {}

InitNode ==
  /\ range = [i \in Chan |-> 0]
  /\ angle = [i \in Chan |-> 0]
  /\ estRange = NoneV
  /\ estAngle = NoneV
  /\ rpc = "idle" /\ ri = 0 /\ rmsg = NoRadarMsg /\ nRadar = 0
  /\ pre = [range |-> [i \in Chan |-> 0], angle |-> [i \in Chan |-> 0]]
  /\ epc = "idle" /\ emsg = NoEstMsg /\ nEst = 0 /\ estHist = {}
  /\ lastEst = [isNone |-> TRUE, v |-> NoEstMsg]
  /\ ipc = "idle" /\ ii = 0 /\ convOk = TRUE /\ reported = FALSE
  /\ hdr = "h1" /\ bx = NoBox /\ overlays = <<>> /\ pub = <<>> /\ nImg = 0
  /\ outcome = "none" /\ error = "none"
  /\ reads = {} /\ snaps = {} /\ estUse = NoUse /\ estCands = {}
  /\ estDoneAtStart = FALSE

\* lines 19-61: the state after __init__.
Init ==
  /\ InitNode
  /\ showRangeEstimate \in BOOLEAN
  /\ ProjIdle

Next ==
  \/ \E msg \in RadarMsgs : RadarStart(msg)
  \/ RadarWriteRange
  \/ RadarWriteAngle
  \/ \E msg \in EstMsgs : EstWriteRange(msg)
  \/ EstWriteAngle
  \/ \E ok \in BOOLEAN, h \in Headers : ImageStart(ok, h)
  \/ ImageTest
  \/ ImageCosAng
  \/ ImageRx
  \/ ImageSinAng
  \/ ImageOverlay
  \/ ImageEstTest
  \/ ImageEstRange
  \/ ImageEstOverlay
  \/ ImagePublish

Spec == Init /\ [][Next]_vars

(***************************************************************************)
(* The geometry: boxImageOverlay of one box under one configuration.       *)
(***************************************************************************)
Cfgs == [pitch : {0, 1}, yaw : Quarter, height : {4}, long : {0, 4},
         lat : {0, 1}, boxWidth : {2}]

InitProj ==
  /\ InitNode
  /\ showRangeEstimate = TRUE
  /\ cfg \in Cfgs
  /\ cast \in CastOutcomes
  /\ \E r \in 0 .. MaxR, ang \in Quarter :
       boxPoints = getBoxPoints(r, ang, cfg.boxWidth)
  /\ opc = "outer"
  /\ k1 = 0 /\ k2 = 0 /\ id1 = 0 /\ id2 = 0 /\ nextId = 1
  /\ lines = {}
  /\ calls = {}

NextProj ==
  \/ OverlayOuter
  \/ OverlayInner

SpecProj == InitProj /\ [][NextProj]_vars

(***************************************************************************)
(* Properties                                                              *)
(***************************************************************************)
\* A radarCallback has run to its end and none is under way.
RadarDone == rpc = "idle" /\ nRadar > 0

\* The frame of the handler has a box of the estimate's colour.
HasBlue(ov) == \E k \in 1 .. Len(ov) : ov[k].colour = "blue"

\* C1: the (range, azimuth) values one imageCallback invocation reads are all
\* those of one fully written store: of the store as it was before a
\* radarCallback or of the store as it is after it, never a mix of channels
\* and never a new range with an old azimuth in one channel.
C1_SnapshotReads ==
  reads = {} \/ \E s \in snaps : \A rd \in reads : s[rd.kind][rd.i] = rd.val

\* C2: when a radarCallback has ended, every channel whose status is not the
\* valid code has range 0 whatever the message's range was, and an
\* imageCallback that runs while that store is current is not building and
\* has not drawn a box for such a channel.
C2_InvalidChannelAbsent ==
  RadarDone =>
    /\ \A i \in Chan : rmsg.status[i] # ValidStatus => range[i] = 0
    /\ snaps = {store} =>
         /\ ipc \in {"cosAng", "rX", "sinAng", "rY"}
              => rmsg.status[ii] = ValidStatus
         /\ \A k \in 1 .. Len(overlays) :
              overlays[k].colour = "red"
                => rmsg.status[overlays[k].chan] = ValidStatus

\* C2's case: a message gave a positive range for a channel without the valid
\* status, and a frame handled on the resulting store was published with a
\* box for another channel.
C2_Witness ==
  /\ RadarDone
  /\ \E i \in Chan : /\ rmsg.status[i] # ValidStatus
                     /\ rmsg.range[i] > 0
                     /\ range[i] = 0
  /\ snaps = {store}
  /\ outcome = "published"
  /\ Len(overlays) > 0

\* C3: when the conversion of the image fails, the failure is reported, no
\* overlay is drawn, no message is published and the handler ends without
\* raising.
C3_DecodeFailureDropsFrame ==
  (nImg > 0 /\ ~convOk) =>
    /\ reported
    /\ overlays = <<>>
    /\ outcome # "published"
    /\ outcome # "raised"

\* C4 as stated: when a radarCallback has ended, a valid channel holds
\* (msg.range[i], msg.azimuth[i]*pi/180) and a channel that is not valid holds
\* (0, msg.azimuth[i]).
C4_StoreFromMessageOnly ==
  RadarDone =>
    \A i \in Chan :
      IF rmsg.status[i] = ValidStatus
      THEN range[i] = rmsg.range[i] /\ angle[i] = DegToRad(rmsg.azimuth[i])
      ELSE range[i] = 0 /\ angle[i] = rmsg.azimuth[i]

\* C4 as amended: when a radarCallback has ended, a valid channel holds
\* (msg.range[i], msg.azimuth[i]*pi/180) and a channel that is not valid holds
\* range 0 and the azimuth it held before the call.
C4_StoreAfterRadar ==
  RadarDone =>
    \A i \in Chan :
      IF rmsg.status[i] = ValidStatus
      THEN range[i] = rmsg.range[i] /\ angle[i] = DegToRad(rmsg.azimuth[i])
      ELSE range[i] = 0 /\ angle[i] = pre.angle[i]

\* C4's case: a second message has been handled, with one valid channel and
\* one channel that is not valid and whose stored azimuth, written by the
\* first message, differs from the azimuth of the second.
C4_Witness ==
  /\ RadarDone
  /\ nRadar = 2
  /\ \E i \in Chan : /\ rmsg.status[i] # ValidStatus
                     /\ pre.angle[i] # 0
                     /\ rmsg.azimuth[i] = 0
  /\ \E j \in Chan : rmsg.status[j] = ValidStatus /\ rmsg.azimuth[j] # 0

\* The corner k of the box projects to a pixel.
Visible(k) == ~getCameraProjection(boxPoints[k], cfg, cast).isNone

\* C5: when boxImageOverlay has ended, the segments drawn are exactly those
\* joining two distinct corners that are both visible; none joins a corner to
\* itself.
C5_PairwiseEdges ==
  opc = "done" =>
    \A a \in 1 .. 4, b \in 1 .. 4 :
      (\E l \in lines : {l.c1, l.c2} = {a, b})
        <=> (a # b /\ Visible(a) /\ Visible(b))

\* C6: a handler whose conversion succeeded ends having published one message
\* that carries the inbound header, and the messages published never outnumber
\* the images handled.
C6_OnePublishPerImage ==
  /\ Len(pub) <= nImg
  /\ (ipc = "idle" /\ nImg > 0 /\ convOk) =>
       /\ outcome = "published"
       /\ pub[Len(pub)].header = hdr

\* C7: the estimate is set exactly when an estimate message has been handled
\* and holds what the latest message gave; a published frame has the
\* estimate's box if an estimate was handled before the frame and only if one
\* has arrived, and the box is that of the estimate message handled last (or
\* of the one under way).
C7_EstimateBox ==
  /\ estRange.isNone <=> nEst = 0
  /\ ~estRange.isNone => estRange.v = emsg.range
  /\ ~estAngle.isNone => estAngle.v = lastEst.v.azimuth
  /\ outcome = "published" =>
       /\ ~HasBlue(overlays) => ~estDoneAtStart
       /\ \A k \in 1 .. Len(overlays) :
            overlays[k].colour = "blue" =>
              \E m \in estCands : /\ overlays[k].box.rX = m.range
                                  /\ overlays[k].box.cosAng = m.azimuth

\* The forward (x) coordinate of the point in the camera frame: the first row
\* of the transpose of Rz(yaw)*Ry(pitch) applied to the point plus the offset
\* from the camera to the radar.
Forward(p, c) ==
  Cos(c.pitch) * Cos(c.yaw) * (p[1] + c.long)
    + Cos(c.pitch) * Sin(c.yaw) * (p[2] + c.lat)
    - Sin(c.pitch) * (p[3] + c.height)

\* C8: a point whose forward coordinate in the camera frame is negative
\* projects to the not-visible sentinel, and no segment drawn has such a point
\* as an endpoint.
C8_BehindNeverProjected ==
  /\ \A c \in calls : Forward(boxPoints[c.k], cfg) < 0 => c.res.isNone
  /\ \A l \in lines : /\ Forward(boxPoints[l.c1], cfg) >= 0
                      /\ Forward(boxPoints[l.c2], cfg) >= 0

\* C8's case: boxImageOverlay has ended on a box with a corner behind the
\* camera, projected to the sentinel, and a segment drawn between two corners
\* in front of it.
C8_Witness ==
  /\ opc = "done"
  /\ \E c \in calls : Forward(boxPoints[c.k], cfg) < 0 /\ c.res.isNone
  /\ lines # {}

\* C9: whenever getCameraProjection returns a pixel, the perspective divisor
\* (the third component of Mint*Rcc*r_cp_c) is not zero.
C9_DivisorNonZero ==
  \A c \in calls :
    c.res.isNone \/ XImage(CameraFrame(boxPoints[c.k], cfg))[3] # 0

\* C10: whenever imageCallback builds the estimate's box, the azimuth it uses
\* is set and comes from the same estimate message as the range.
C10_EstimateNotTorn ==
  estUse.used =>
    /\ ~estUse.a.isNone
    /\ \E m \in estHist : m.range = estUse.r.v /\ m.azimuth = estUse.a.v

====
